---- MODULE Spec2Model ----
(***************************************************************************)
(* Model of src/servers.js: the context-propagating structured logging     *)
(* service (pino child loggers + AsyncLocalStorage + express middleware).  *)
(*                                                                         *)
(* JavaScript runs each synchronous stretch of code to completion, so one  *)
(* action is one macrotask: the arrival of a request (middleware, routing  *)
(* and the handler up to its first await), the resumption of a suspended   *)
(* chain after an await, or the firing of an event.  Chains interleave     *)
(* only at these boundaries.                                               *)
(***************************************************************************)
EXTENDS Integers, Sequences, FiniteSets, TLC

\* ---------------------------------------------------------------- bounds
NumRequests == 2      \* requests the model lets arrive
MaxClock == 2         \* performance.now() ranges over 0..MaxClock

Requests == 1..NumRequests

\* Math.floor(Math.random() * 10) + 1 lies in 1..10; the model draws the
\* least and the greatest of these.
UserIds == {1, 10}

\* ------------------------------------------------------------ JS values
\* An optional value (a header that may be absent): <<>> or <<v>>.
\* req.headers[name]: undefined (<<>>) when the header is absent.
HeaderGet(headers, name) ==
    IF \E i \in 1..Len(headers) : headers[i][1] = name
    THEN <<headers[CHOOSE i \in 1..Len(headers) : headers[i][1] = name][2]>>
    ELSE <<>>

\* JS truthiness of an optional string: undefined and "" are falsy.
Truthy(opt) == opt # <<>> /\ opt[1] # ""

\* The header values a client may send as x-request-id: none, empty, an id.
XRequestIds == {<<>>, <<"">>, <<"abc-123">>}

\* req.headers of a request whose x-request-id is the optional xrid.
HeadersOf(xrid) ==
    <<<<"user-agent", "curl/8">>>> \o
    (IF xrid = <<>> THEN <<>> ELSE <<<<"x-request-id", xrid[1]>>>>)

\* randomUUID(): the n-th identifier the generator hands out; no two alike.
randomUUID(n) == "uuid-" \o ToString(n)

\* ----------------------------------------------------------------- Map
\* A JS Map: a sequence of <<key, value>> entries with distinct keys.
NewMap == <<>>

MapHas(m, k) == \E i \in 1..Len(m) : m[i][1] = k

MapGet(m, k) == m[CHOOSE i \in 1..Len(m) : m[i][1] = k][2]

MapSet(m, k, v) ==
    IF MapHas(m, k)
    THEN [i \in 1..Len(m) |-> IF m[i][1] = k THEN <<k, v>> ELSE m[i]]
    ELSE Append(m, <<k, v>>)

\* ---------------------------------------------------------------- pino
\* A pino logger is the chain of bindings its records carry; the base
\* logger pino() has none of its own.
logger == <<>>

\* Mutant of Child: the parent's bindings are written after data's.
ChildParentLast(parentLogger, data) == data \o parentLogger

\* parentLogger.child(data): a new logger; the parent's bindings come
\* first and data's are appended (a key bound twice is written twice).
Child(parentLogger, data) == parentLogger \o data

\* The record a logger call writes: the logger's bindings, then the call's
\* merge object, then the message.  chain is not part of the output: it
\* notes the request whose chain made the call.
Emit(lg, level, obj, msg, r) ==
    [level |-> level, fields |-> lg \o obj, msg |-> msg, chain |-> r]

\* What a reader of the JSON line finds under key (the last occurrence of a
\* duplicated key is the one a JSON parser keeps).
HasField(rec, key) == \E i \in 1..Len(rec.fields) : rec.fields[i][1] = key

FieldIdx(rec, key) ==
    CHOOSE i \in 1..Len(rec.fields) :
        /\ rec.fields[i][1] = key
        /\ \A j \in (i + 1)..Len(rec.fields) : rec.fields[j][1] # key

FieldOf(rec, key) == rec.fields[FieldIdx(rec, key)][2]

\* All the values written under key, in order.
FieldAll(rec, key) ==
    LET idx == {i \in 1..Len(rec.fields) : rec.fields[i][1] = key}
    IN {rec.fields[i][2] : i \in idx}

\* ---------------------------------------------------- AsyncLocalStorage
\* Stores live in heap and are named by their index; NoStore is what
\* getStore() returns outside every run().
NoStore == 0

\* asyncLocalStorage.getStore() in an execution context whose store is cur.
GetStore(cur) == cur

\* store?.get("logger") || logger
LoggerIn(h, store) ==
    IF store # NoStore /\ MapHas(h[store], "logger")
    THEN MapGet(h[store], "logger")
    ELSE logger

\* new Map(store): a copy of the entries; new Map(undefined) is empty.
CopyMap(h, store) == IF store = NoStore THEN NewMap ELSE h[store]

\* Mutant of WithLogContext: the child is derived from the base logger.
WithLogContextFromBase(h, cur, data) ==
    Append(h, MapSet(CopyMap(h, GetStore(cur)), "logger", Child(logger, data)))

\* withLogContext(data, callback), up to the call of run(): the heap with
\* newStore allocated.  The callback then runs with Len of it as its store.
WithLogContext(h, cur, data) ==
    LET store == GetStore(cur)
        parentLogger == LoggerIn(h, store)
        childLogger == Child(parentLogger, data)
        newStore == MapSet(CopyMap(h, store), "logger", childLogger)
    IN Append(h, newStore)

\* Mutant of getLogger: the logger of the store most recently passed to
\* run(), whichever store is in effect.
getLoggerNewest(h, cur) == LoggerIn(h, Len(h))

\* getLogger()
getLogger(h, cur) == LoggerIn(h, GetStore(cur))

\* ---------------------------------------------------------------- state
\* ------------------------------------------------------------------ /sse
NumClients == 2       \* /sse connections the model lets open
MaxWrites == 2        \* time events the model lets one connection receive

Clients == 1..NumClients

\* A connection nobody has opened.
NoConnection ==
    [state |-> "none", allowOrigin |-> "", timer |-> FALSE, written |-> 0,
     ended |-> FALSE, late |-> FALSE]

\* ------------------------------------------------------------------ state
VARIABLES
    alive,       \* the node process is running
    now,         \* performance.now()
    uuids,       \* how many identifiers randomUUID() has handed out
    heap,        \* the Map objects given to asyncLocalStorage.run(), by index
    pc,          \* per request: where its chain stands
    res,         \* per request: the state of its response object
    xRequestId,  \* per request: the x-request-id header it came with
    requestId,   \* per request: the middleware's requestId
    start,       \* per request: the middleware's start
    reqLogger,   \* per request: the middleware's reqLogger
    listeners,   \* per request: the events of res the completion hook is on
    statusCode,  \* per request: res.statusCode
    userID,      \* per request: the handler's userID
    ctx,         \* per request: the store its suspended continuation resumes in
    log,         \* per request: the records written during its chain
    reads,       \* per request: the getStore() calls of its chain
    installed,   \* per request: the stores its chain passed to run(), in order
    ops,         \* per request: what its chain did to stores and to next, in order
    sync,        \* a synchronous caller of withLogContext outside any request
    sse          \* per /sse connection: its response and its interval timer

vars == <<alive, now, uuids, heap, pc, res, xRequestId, requestId, start,
          reqLogger, listeners, statusCode, userID, ctx, log, reads, installed,
          ops, sync, sse>>

\* The chain of q is suspended at an await.
Suspended(q) == pc[q] \in {"awaitFetch", "awaitJson"}


\* One getStore() call: where, what it returned, the store the calling
\* chain itself installed last, and the store most recently passed to
\* run() by any chain of the process.
Read(site, got, want, newest) ==
    [site |-> site, got |-> got, want |-> want, newest |-> newest]

\* One thing a chain does: "set" (Map.prototype.set on a store), "run" (the
\* store is passed to asyncLocalStorage.run) or "next" (next() is called
\* with the store in effect).
Op(op, store) == [op |-> op, store |-> store]

\* No synchronous caller.
NoSync == [pc |-> "off", f1 |-> <<>>, f2 |-> <<>>, cur |-> NoStore,
           saved |-> <<>>, out |-> <<>>,
           work |-> [thrown |-> FALSE, value |-> ""], got |-> <<>>]

InitProcess ==
    /\ alive = TRUE
    /\ now = 0
    /\ uuids = 0
    /\ heap = <<>>
    /\ pc = [r \in Requests |-> "idle"]
    /\ res = [r \in Requests |-> "open"]
    /\ xRequestId = [r \in Requests |-> <<>>]
    /\ requestId = [r \in Requests |-> ""]
    /\ start = [r \in Requests |-> 0]
    /\ reqLogger = [r \in Requests |-> logger]
    /\ listeners = [r \in Requests |-> {}]
    /\ statusCode = [r \in Requests |-> 200]
    /\ userID = [r \in Requests |-> 0]
    /\ ctx = [r \in Requests |-> NoStore]
    /\ log = [r \in Requests |-> <<>>]
    /\ reads = [r \in Requests |-> <<>>]
    /\ installed = [r \in Requests |-> <<>>]
    /\ ops = [r \in Requests |-> <<>>]
    /\ sse = [c \in Clients |-> NoConnection]

Init == InitProcess /\ sync = NoSync

\* ------------------------------------------------------ request middleware
\* Mutant of RequestIdOf: ?? in place of ||.
RequestIdNullish(headers, n) ==
    LET h == HeaderGet(headers, "x-request-id")
    IN IF h # <<>> THEN h[1] ELSE randomUUID(n + 1)

\* const requestId = req.headers["x-request-id"] || randomUUID();
\* n identifiers have been generated so far.
RequestIdOf(headers, n) ==
    LET h == HeaderGet(headers, "x-request-id")
    IN IF Truthy(h) THEN h[1] ELSE randomUUID(n + 1)

\* Whether that line called randomUUID().
Generated(headers) == ~Truthy(HeaderGet(headers, "x-request-id"))

\* Mutant of HookEvents: the hook is registered on "close" as well.
HookEventsBoth == {"finish", "close"}

\* The events of res on which the middleware registers the completion hook.
HookEvents == {"finish"}

\* Mutant of Severity: > in place of >=.
SeverityStrict(status) ==
    IF status > 500 THEN "error"
    ELSE IF status > 400 THEN "warn"
    ELSE "info"

\* The level the completion hook logs at.
Severity(status) ==
    IF status >= 500 THEN "error"
    ELSE IF status >= 400 THEN "warn"
    ELSE "info"

SeverityMsg(status) ==
    IF status >= 500 THEN "server error"
    ELSE IF status >= 400 THEN "client error"
    ELSE "request completed"

\* Mutant of CompletionHook: one start for the whole process, that of the
\* request that arrived last.
CompletionHookSharedStart(r, t) ==
    LET latest == CHOOSE q \in Requests :
                      pc[q] # "idle" /\ \A p \in Requests : p > q => pc[p] = "idle"
        logData == <<<<"duration_ms", t - start[latest]>>,
                     <<"status_code", statusCode[r]>>>>
    IN Emit(reqLogger[r], Severity(statusCode[r]), logData,
            SeverityMsg(statusCode[r]), r)

\* The completion hook of request r, run at clock value t.
CompletionHook(r, t) ==
    LET logData == <<<<"duration_ms", t - start[r]>>,
                     <<"status_code", statusCode[r]>>>>
    IN Emit(reqLogger[r], Severity(statusCode[r]), logData,
            SeverityMsg(statusCode[r]), r)

\* res emits event: the records its listeners write.
Fire(r, event) ==
    IF event \in listeners[r] THEN <<CompletionHook(r, now)>> ELSE <<>>

\* The store in effect inside the callback of asyncLocalStorage.run(store, cb).
AlsRun(cur, store) == store

\* Mutant of NextCalls: next() is also called directly, before the binding.
NextCallsTwice(cur0, cur1) == <<cur0, cur1>>

\* The calls of next() the middleware makes, each with the store in effect
\* at the call: one, as the callback of withLogContext.  cur0 is the store
\* in effect in the callback of run(), cur1 the one withLogContext installs.
NextCalls(cur0, cur1) == <<cur1>>

\* The middleware, from its first line to the call of next(): the entry
\* record, the two stores it allocates and the getStore() calls it makes.
\* h is the heap and n the number of identifiers generated so far.
Middleware(r, xrid, url, h, n) ==
    LET headers == HeadersOf(xrid)
        rid == RequestIdOf(headers, n)
        rl == Child(logger, <<<<"request.id", rid>>>>)
        ua == HeaderGet(headers, "user-agent")
        entry == Emit(rl, "info",
                      <<<<"http.request.method", "GET">>, <<"url.path", url>>,
                        <<"client.address", "127.0.0.1">>,
                        <<"user_agent.original", ua[1]>>>>,
                      "incoming GET request to " \o url, r)
        h0 == Append(h, NewMap)
        s0 == Len(h0)
        cur0 == AlsRun(NoStore, s0)
        h1 == [h0 EXCEPT ![GetStore(cur0)] = MapSet(@, "logger", rl)]
        h2 == WithLogContext(h1, cur0, <<<<"request.id", rid>>>>)
        s1 == Len(h2)
        cur1 == AlsRun(cur0, s1)
        nexts == NextCalls(cur0, cur1)
    IN [requestId |-> rid, reqLogger |-> rl, entry |-> entry, heap |-> h2,
        cur |-> cur1, installed |-> <<s0, s1>>, nexts |-> nexts,
        ops |-> <<Op("run", s0), Op("set", s0), Op("set", s1), Op("run", s1)>>
                \o [i \in 1..Len(nexts) |-> Op("next", nexts[i])],
        reads |-> <<Read("middleware", GetStore(cur0), s0, s0),
                    Read("withLogContext", GetStore(cur0), s0, s0)>>]

\* What the middleware leaves in the request's closure and in the process.
MiddlewareEffect(r, xrid, m) ==
    /\ xRequestId' = [xRequestId EXCEPT ![r] = xrid]
    /\ requestId' = [requestId EXCEPT ![r] = m.requestId]
    /\ start' = [start EXCEPT ![r] = now]
    /\ reqLogger' = [reqLogger EXCEPT ![r] = m.reqLogger]
    /\ listeners' = [listeners EXCEPT ![r] = HookEvents]
    /\ uuids' = IF Generated(HeadersOf(xrid)) THEN uuids + 1 ELSE uuids

\* Request r is the r-th to arrive.
MayArrive(r) == alive /\ pc[r] = "idle" /\ \A q \in 1..(r - 1) : pc[q] # "idle"

\* Mutant of ArrivalLog: the entry record is written after next() returns.
ArrivalLogLate(entry, downstream) == downstream \o <<entry>>

\* The records of the macrotask in which a request arrives: reqLogger.info
\* writes the entry record before the middleware calls next(), and
\* downstream are the records written under next().
ArrivalLog(entry, downstream) == <<entry>> \o downstream

\* The /fetch-user handler up to the await of fetch() in fetchUser, run once
\* for each call of next() in nexts, with the store of that call in effect.
\* h is the heap and last the store the middleware installed last.
RECURSIVE Handlers(_, _, _, _, _)
Handlers(nexts, h, uid, r, last) ==
    IF nexts = <<>>
    THEN [heap |-> h, log |-> <<>>, reads |-> <<>>, installed |-> <<>>,
          ops |-> <<>>, ctx |-> NoStore]
    ELSE LET before == Handlers(SubSeq(nexts, 1, Len(nexts) - 1), h, uid, r, last)
             cur == nexts[Len(nexts)]
             h3 == WithLogContext(before.heap, cur, <<<<"user.id", uid>>>>)
             s2 == Len(h3)
             cur2 == AlsRun(cur, s2)
             fetching == Emit(getLogger(h3, cur2), "info", <<>>,
                              "fetching user data", r)
         IN [heap |-> h3,
             log |-> Append(before.log, fetching),
             reads |-> before.reads \o
                         <<Read("withLogContext", GetStore(cur), last,
                                Len(before.heap)),
                           Read("getLogger", GetStore(cur2), s2, s2)>>,
             installed |-> Append(before.installed, s2),
             ops |-> before.ops \o <<Op("set", s2), Op("run", s2)>>,
             ctx |-> cur2]

\* GET /fetch-user: the middleware, then the handler up to the await of
\* fetch() in fetchUser, where the chain is suspended.
ArriveFetchUser(r, xrid, uid) ==
    /\ MayArrive(r)
    /\ LET m == Middleware(r, xrid, "/fetch-user", heap, uuids)
           hd == Handlers(m.nexts, m.heap, uid, r, m.installed[2])
       IN /\ MiddlewareEffect(r, xrid, m)
          /\ heap' = hd.heap
          /\ userID' = [userID EXCEPT ![r] = uid]
          /\ ctx' = [ctx EXCEPT ![r] = hd.ctx]
          /\ log' = [log EXCEPT ![r] = ArrivalLog(m.entry, hd.log)]
          /\ installed' = [installed EXCEPT ![r] = m.installed \o hd.installed]
          /\ ops' = [ops EXCEPT ![r] = m.ops \o hd.ops]
          /\ reads' = [reads EXCEPT ![r] = m.reads \o hd.reads]
          /\ pc' = [pc EXCEPT ![r] = "awaitFetch"]
    /\ UNCHANGED <<alive, now, res, statusCode, sync, sse>>

\* A request no route matches: the middleware, then express's final handler
\* answers 404.
ArriveNoRoute(r, xrid) ==
    /\ MayArrive(r)
    /\ LET m == Middleware(r, xrid, "/missing", heap, uuids)
       IN /\ MiddlewareEffect(r, xrid, m)
          /\ heap' = m.heap
          /\ log' = [log EXCEPT ![r] = ArrivalLog(m.entry, <<>>)]
          /\ installed' = [installed EXCEPT ![r] = m.installed]
          /\ ops' = [ops EXCEPT ![r] = m.ops]
          /\ reads' = [reads EXCEPT ![r] = m.reads]
    /\ statusCode' = [statusCode EXCEPT ![r] = 404]
    /\ res' = [res EXCEPT ![r] = "ended"]
    /\ pc' = [pc EXCEPT ![r] = "done"]
    /\ UNCHANGED <<alive, now, userID, ctx, sync, sse>>

\* ----------------------------------------------------- /fetch-user, resumed
\* Mutant of ResumeStore: one process-wide slot, holding the store most
\* recently passed to run().
ResumeStoreNewest(r) == Len(heap)

\* The store in effect when the suspended chain of r resumes after an await:
\* the one that was in effect when it suspended.
ResumeStore(r) == ctx[r]

\* Node reports a rejection nothing handled as soon as the failing
\* continuation has run.  "throw" (the default): the process exits.  "warn"
\* (--unhandled-rejections=warn): a warning, and the process goes on.
UnhandledRejection(mode) == mode = "warn"

\* The fetch() awaited at the top of fetchUser settles.  "ok": response.ok,
\* and the chain suspends again at response.json().  "notok": fetchUser
\* throws.  "reject": fetch() itself rejects.  Either failure rejects the
\* promise of the handler's callback, which nothing awaits or catches: the
\* chain is over and the response is never ended.
FetchSettles(r, outcome, mode) ==
    /\ alive
    /\ pc[r] = "awaitFetch"
    /\ IF outcome = "ok"
       THEN /\ pc' = [pc EXCEPT ![r] = "awaitJson"]
            /\ UNCHANGED alive
       ELSE /\ pc' = [pc EXCEPT ![r] = "failed"]
            /\ alive' = UnhandledRejection(mode)
    /\ UNCHANGED <<now, uuids, heap, res, xRequestId, requestId, start,
                   reqLogger, listeners, statusCode, userID, ctx, log, reads,
                   installed, sync,
                   ops, sse>>

\* response.json() settles.  "ok": fetchUser logs and returns the user, and
\* the handler's callback ends the response with res.json(user); a response
\* whose connection has closed is never flushed, so it never finishes.
\* "reject": the promise of the handler's callback rejects, as above.
JsonSettles(r, outcome, mode) ==
    /\ alive
    /\ pc[r] = "awaitJson"
    /\ IF outcome = "ok"
       THEN LET cur == ResumeStore(r)
                profile == Emit(getLogger(heap, cur), "info", <<>>,
                                "profile info for user " \o ToString(userID[r])
                                    \o " retrieved successfully", r)
            IN /\ log' = [log EXCEPT ![r] = Append(@, profile)]
               /\ reads' = [reads EXCEPT ![r] =
                    Append(@, Read("getLogger", GetStore(cur),
                                   installed[r][Len(installed[r])], Len(heap)))]
               /\ res' = [res EXCEPT ![r] = IF @ = "open" THEN "ended" ELSE @]
               /\ pc' = [pc EXCEPT ![r] = "done"]
               /\ UNCHANGED alive
       ELSE /\ pc' = [pc EXCEPT ![r] = "failed"]
            /\ alive' = UnhandledRejection(mode)
            /\ UNCHANGED <<log, reads, res>>
    /\ UNCHANGED <<now, uuids, heap, xRequestId, requestId, start,
                   reqLogger, listeners, statusCode, userID, ctx, installed, sync,
                   ops, sse>>

\* ------------------------------------------------------- response events
\* The ended response has been flushed: res emits "finish".
EmitFinish(r) ==
    /\ alive
    /\ res[r] = "ended"
    /\ res' = [res EXCEPT ![r] = "finished"]
    /\ log' = [log EXCEPT ![r] = @ \o Fire(r, "finish")]
    /\ UNCHANGED <<alive, now, uuids, heap, pc, xRequestId, requestId, start,
                   reqLogger, listeners, statusCode, userID, ctx, reads,
                   installed, sync,
                   ops, sse>>

\* After "finish", res emits "close".
EmitClose(r) ==
    /\ alive
    /\ res[r] = "finished"
    /\ res' = [res EXCEPT ![r] = "closed"]
    /\ log' = [log EXCEPT ![r] = @ \o Fire(r, "close")]
    /\ UNCHANGED <<alive, now, uuids, heap, pc, xRequestId, requestId, start,
                   reqLogger, listeners, statusCode, userID, ctx, reads,
                   installed, sync,
                   ops, sse>>

\* The client closes the connection before the response has ended: res
\* emits "close" and will never emit "finish".
ClientAbort(r) ==
    /\ alive
    /\ pc[r] # "idle"
    /\ res[r] = "open"
    /\ res' = [res EXCEPT ![r] = "closed"]
    /\ log' = [log EXCEPT ![r] = @ \o Fire(r, "close")]
    /\ UNCHANGED <<alive, now, uuids, heap, pc, xRequestId, requestId, start,
                   reqLogger, listeners, statusCode, userID, ctx, reads,
                   installed, sync,
                   ops, sse>>

\* Time passes.
Tick ==
    /\ alive
    /\ now < MaxClock
    /\ now' = now + 1
    /\ UNCHANGED <<alive, uuids, heap, pc, res, xRequestId, requestId, start,
                   reqLogger, listeners, statusCode, userID, ctx, log, reads,
                   installed, sync,
                   ops, sse>>

\* The settling of an await: how it settles, and what node does with a
\* rejection nothing handles.
Settlings ==
    {<<"ok", "warn">>, <<"notok", "warn">>, <<"notok", "throw">>,
     <<"reject", "warn">>, <<"reject", "throw">>}

\* response.json() has no "notok".
JsonSettlings == {s \in Settlings : s[1] # "notok"}

Next ==
    \/ \E r \in Requests, xrid \in XRequestIds, uid \in UserIds :
           ArriveFetchUser(r, xrid, uid)
    \/ \E r \in Requests, xrid \in XRequestIds : ArriveNoRoute(r, xrid)
    \/ \E r \in Requests, s \in Settlings : FetchSettles(r, s[1], s[2])
    \/ \E r \in Requests, s \in JsonSettlings : JsonSettles(r, s[1], s[2])
    \/ \E r \in Requests : EmitFinish(r)
    \/ \E r \in Requests : EmitClose(r)
    \/ \E r \in Requests : ClientAbort(r)

Spec == Init /\ [][Next]_vars

\* The same with the clock running, for requests that come without the
\* header and draw one user id: the timing code reads neither.
NextTimed ==
    \/ Tick
    \/ \E r \in Requests : ArriveFetchUser(r, <<>>, 1)
    \/ \E r \in Requests : ArriveNoRoute(r, <<>>)
    \/ \E r \in Requests, s \in Settlings : FetchSettles(r, s[1], s[2])
    \/ \E r \in Requests, s \in JsonSettlings : JsonSettles(r, s[1], s[2])
    \/ \E r \in Requests : EmitFinish(r)
    \/ \E r \in Requests : EmitClose(r)
    \/ \E r \in Requests : ClientAbort(r)

TimedSpec == Init /\ [][NextTimed]_vars

\* --------------------------------------------- withLogContext, called alone
\* withLogContext and getLogger as functions of their arguments: a
\* synchronous caller, outside any request, that runs
\*     getLogger().info("outside")
\*     try {
\*         withLogContext(f1, () => {
\*             getLogger().info("outer")
\*             const w = withLogContext(f2, () => {
\*                 getLogger().info("work")
\*                 <return a value, throw, or return a rejected promise> })
\*             getLogger().info("between")
\*             return w })
\*     } catch (e) {}
\*     getLogger().info("after")
\* for every f1 and f2 over two keys and two values and every way work ends.
DataKeys == {"request.id", "user.id"}
DataVals == {"x", "y"}
Datas ==
    {<<>>} \cup {<<<<k, v>>>> : k \in DataKeys, v \in DataVals}
           \cup {<<<<"request.id", v>>, <<"user.id", w>>>> : v \in DataVals, w \in DataVals}

\* The keys of a data object, and the value it gives a key.
KeysOf(data) == {data[i][1] : i \in 1..Len(data)}
ValueOf(data, k) == data[CHOOSE i \in 1..Len(data) : data[i][1] = k][2]

\* How a callback ends: it returns a value, it throws, or it returns a
\* promise that is rejected.
Outcomes ==
    {[thrown |-> FALSE, value |-> "user"],
     [thrown |-> TRUE, value |-> "Error"],
     [thrown |-> FALSE, value |-> "Promise <rejected>"]}

\* Where the caller stands next; delivered is what the withLogContext call
\* that just ended handed to it.  A throw skips the rest of the callback it
\* passes through.
SyncAfter(at, delivered) ==
    CASE at = "outside" -> "enter1"
      [] at = "enter1" -> "outer"
      [] at = "outer" -> "enter2"
      [] at = "enter2" -> "work"
      [] at = "work" -> "exit2"
      [] at = "exit2" -> IF delivered.thrown THEN "exit1" ELSE "between"
      [] at = "between" -> "exit1"
      [] at = "exit1" -> "after"
      [] OTHER -> "end"

InitSync ==
    /\ InitProcess
    /\ \E f1 \in Datas, f2 \in Datas, work \in Outcomes :
           sync = [pc |-> "outside", f1 |-> f1, f2 |-> f2, cur |-> NoStore,
                   saved |-> <<>>, out |-> <<>>, work |-> work, got |-> <<>>]

\* getLogger().info(<where the caller stands>).  Beside the record, out
\* keeps the store that was in effect and the logger getLogger() returned.
SyncLog ==
    /\ sync.pc \in {"outside", "outer", "work", "between", "after"}
    /\ LET lg == getLogger(heap, sync.cur)
       IN sync' = [sync EXCEPT
                     !.out = Append(@, [rec |-> Emit(lg, "info", <<>>, sync.pc, 0),
                                        cur |-> sync.cur, lg |-> lg]),
                     !.pc = SyncAfter(@, sync.work)]
    /\ UNCHANGED <<alive, now, uuids, heap, pc, res, xRequestId, requestId,
                   start, reqLogger, listeners, statusCode, userID, ctx, log,
                   reads, installed,
                   ops, sse>>

\* withLogContext(data, callback) is called: run() keeps the store in
\* effect to restore it, and calls callback with newStore in effect.
SyncEnter ==
    /\ sync.pc \in {"enter1", "enter2"}
    /\ LET data == IF sync.pc = "enter1" THEN sync.f1 ELSE sync.f2
           h == WithLogContext(heap, sync.cur, data)
       IN /\ heap' = h
          /\ sync' = [sync EXCEPT !.saved = Append(@, sync.cur),
                                  !.cur = AlsRun(sync.cur, Len(h)),
                                  !.pc = SyncAfter(@, sync.work)]
    /\ UNCHANGED <<alive, now, uuids, pc, res, xRequestId, requestId,
                   start, reqLogger, listeners, statusCode, userID, ctx, log,
                   reads, installed,
                   ops, sse>>

\* Mutant of AlsExit: run() leaves no store in effect.
AlsExitNone(saved) == NoStore

\* The store run() puts back in effect when its callback returns or throws:
\* the one that was in effect when run() was called.
AlsExit(saved) == saved[Len(saved)]

\* Mutant of WithLogContextResult: a binder that catches what its callback
\* throws.
WithLogContextSwallows(outcome) ==
    IF outcome.thrown THEN [thrown |-> FALSE, value |-> "undefined"] ELSE outcome

\* return asyncLocalStorage.run(newStore, callback): run() returns what
\* callback returns and lets what it throws through, and withLogContext
\* hands that on; outcome is how callback ended.
WithLogContextResult(outcome) == outcome

\* callback ends: run() restores the store that was in effect before, and
\* withLogContext ends the way callback did.  The inner callback is work;
\* the outer one ends the way the inner withLogContext did.
SyncExit ==
    /\ sync.pc \in {"exit1", "exit2"}
    /\ LET outcome == IF sync.pc = "exit2" THEN sync.work
                      ELSE sync.got[Len(sync.got)]
           delivered == WithLogContextResult(outcome)
       IN sync' = [sync EXCEPT !.cur = AlsExit(sync.saved),
                               !.saved = SubSeq(@, 1, Len(@) - 1),
                               !.got = Append(@, delivered),
                               !.pc = SyncAfter(@, delivered)]
    /\ UNCHANGED <<alive, now, uuids, heap, pc, res, xRequestId, requestId,
                   start, reqLogger, listeners, statusCode, userID, ctx, log,
                   reads, installed,
                   ops, sse>>

NextSync == SyncLog \/ SyncEnter \/ SyncExit

SyncSpec == InitSync /\ [][NextSync]_vars

\* ----------------------------------------- the completion hook, called alone
\* The completion hook as a function of res.statusCode: one request that
\* went through the middleware and whose downstream handler has ended the
\* response with any status code, before res emits "finish".
StatusCodes == 100..599

InitSeverity ==
    LET m == Middleware(1, <<"abc-123">>, "/status", <<>>, 0)
        first(x, other) == [r \in Requests |-> IF r = 1 THEN x ELSE other]
    IN /\ sync = NoSync
       /\ alive = TRUE
       /\ now = 0
       /\ uuids = 0
       /\ heap = m.heap
       /\ pc = first("done", "idle")
       /\ res = first("ended", "open")
       /\ xRequestId = first(<<"abc-123">>, <<>>)
       /\ requestId = first(m.requestId, "")
       /\ start = first(0, 0)
       /\ reqLogger = first(m.reqLogger, logger)
       /\ listeners = first(HookEvents, {})
       /\ \E code \in StatusCodes : statusCode = first(code, 200)
       /\ userID = first(0, 0)
       /\ ctx = first(NoStore, NoStore)
       /\ log = first(<<m.entry>>, <<>>)
       /\ reads = first(m.reads, <<>>)
       /\ installed = first(m.installed, <<>>)
       /\ ops = first(m.ops, <<>>)
       /\ sse = [c \in Clients |-> NoConnection]

NextSeverity == (\E r \in Requests : EmitFinish(r)) \/ (\E r \in Requests : EmitClose(r))

SeveritySpec == InitSeverity /\ [][NextSeverity]_vars

\* ---------------------------------------------------------- GET /sse
\* The Origin header a client may send.
Origins == {<<>>, <<"http://a.example">>}

\* const origin = req.headers.origin || "*";
AllowOrigin(origin) == IF Truthy(origin) THEN origin[1] ELSE "*"

\* GET /sse: the handler sends the headers and starts the connection's
\* interval timer.
SseConnect(c, origin) ==
    /\ sse[c].state = "none"
    /\ sse' = [sse EXCEPT ![c] = [state |-> "open",
                                  allowOrigin |-> AllowOrigin(origin),
                                  timer |-> TRUE, written |-> 0,
                                  ended |-> FALSE, late |-> FALSE]]
    /\ UNCHANGED <<alive, now, uuids, heap, pc, res, xRequestId, requestId,
                   start, reqLogger, listeners, statusCode, userID, ctx, log,
                   reads, installed, ops, sync>>

\* res.write(...): a time event goes out, unless the response has ended.
SseWrite(conn) ==
    IF conn.ended THEN [conn EXCEPT !.late = TRUE]
    ELSE [conn EXCEPT !.written = @ + 1]

\* The interval timer of connection c fires.
IntervalFires(c) ==
    /\ sse[c].timer
    /\ sse[c].written < MaxWrites
    /\ sse' = [sse EXCEPT ![c] = SseWrite(@)]
    /\ UNCHANGED <<alive, now, uuids, heap, pc, res, xRequestId, requestId,
                   start, reqLogger, listeners, statusCode, userID, ctx, log,
                   reads, installed, ops, sync>>

\* Mutant of ClearInterval: one timer id shared by all connections.
ClearIntervalAll(conns, c) == [d \in Clients |-> [conns[d] EXCEPT !.timer = FALSE]]

\* clearInterval(intervalId), intervalId being the timer of connection c.
ClearInterval(conns, c) == [conns EXCEPT ![c].timer = FALSE]

\* req emits "close": the listener clears the timer and ends the response.
ReqClose(c) ==
    /\ sse[c].state = "open"
    /\ sse' = [ClearInterval(sse, c) EXCEPT ![c].ended = TRUE,
                                            ![c].state = "closed"]
    /\ UNCHANGED <<alive, now, uuids, heap, pc, res, xRequestId, requestId,
                   start, reqLogger, listeners, statusCode, userID, ctx, log,
                   reads, installed, ops, sync>>

NextSse ==
    \/ \E c \in Clients, origin \in Origins : SseConnect(c, origin)
    \/ \E c \in Clients : IntervalFires(c)
    \/ \E c \in Clients : ReqClose(c)

SseSpec == Init /\ [][NextSse]_vars

\* ------------------------------------------------------------ properties
Arrived(r) == pc[r] # "idle"

\* In flight: arrived, and the response neither finished nor closed.
InFlight(r) == Arrived(r) /\ res[r] \in {"open", "ended"}

Range(seq) == {seq[i] : i \in 1..Len(seq)}

ProfileMsg(id) == "profile info for user " \o ToString(id) \o " retrieved successfully"

IsCompletion(rec) == HasField(rec, "status_code")

Completions(r) == Cardinality({i \in 1..Len(log[r]) : IsCompletion(log[r][i])})

\* The chain of r has resumed from its awaits and called getLogger() at a
\* moment when the store most recently passed to run(), process-wide, was
\* one installed by the chain of q.
ResumedAfter(r, q) ==
    /\ Len(reads[r]) = 5
    /\ reads[r][5].newest \in Range(installed[q])

\* C1, as stated: for two distinct requests in flight concurrently, no
\* record written during the chain of one carries the request.id of the
\* other.
C1_IsolationAnyIds ==
    \A r1 \in Requests, r2 \in Requests :
        (r1 # r2 /\ InFlight(r1) /\ InFlight(r2)) =>
            \A i \in 1..Len(log[r1]) :
                requestId[r2] \notin FieldAll(log[r1][i], "request.id")

\* C1, amended: for two distinct requests whose correlation identifiers
\* differ, no record written during the chain of one carries the request.id
\* of the other, however their chains interleave.
C1_Isolation ==
    \A r1 \in Requests, r2 \in Requests :
        (r1 # r2 /\ Arrived(r1) /\ Arrived(r2) /\ requestId[r1] # requestId[r2]) =>
            \A i \in 1..Len(log[r1]) :
                requestId[r2] \notin FieldAll(log[r1][i], "request.id")

\* Two requests with different identifiers: the second arrived while the
\* first was suspended, the first then resumed and logged, and the second is
\* still suspended.
C1_Witness ==
    \E r1 \in Requests, r2 \in Requests :
        /\ r1 # r2
        /\ requestId[r1] # requestId[r2]
        /\ ResumedAfter(r1, r2)
        /\ Suspended(r2)
        /\ Len(log[r1]) >= 3

\* C2: every getStore() call made by a step of a chain returns the store
\* that chain installed last, which is one of its own and none of any other
\* chain's.
C2_OwnFrame ==
    \A r \in Requests : \A i \in 1..Len(reads[r]) :
        /\ reads[r][i].got = reads[r][i].want
        /\ reads[r][i].got \in Range(installed[r])
        /\ \A q \in Requests \ {r} : reads[r][i].got \notin Range(installed[q])

\* A chain read the store after another chain had installed its own.
C2_Witness ==
    \E r \in Requests, q \in Requests :
        /\ r # q
        /\ ResumedAfter(r, q)
        /\ reads[r][5].site = "getLogger"

\* C3: in /fetch-user, "fetching user data" and "profile info for user ...
\* retrieved successfully" both carry the request.id of their own request
\* and the user.id the handler bound.
C3_FetchUserRecords ==
    \A r \in Requests : \A i \in 1..Len(log[r]) :
        log[r][i].msg \in {"fetching user data", ProfileMsg(userID[r])} =>
            /\ HasField(log[r][i], "request.id")
            /\ FieldOf(log[r][i], "request.id") = requestId[r]
            /\ HasField(log[r][i], "user.id")
            /\ FieldOf(log[r][i], "user.id") = userID[r]

\* A /fetch-user request has written both records, and while it was
\* suspended another /fetch-user request with another identifier and another
\* user arrived and bound its own fields.
C3_Witness ==
    \E r \in Requests, q \in Requests :
        /\ r # q
        /\ Len(log[r]) >= 3
        /\ log[r][2].msg = "fetching user data"
        /\ log[r][3].msg = ProfileMsg(userID[r])
        /\ ResumedAfter(r, q)
        /\ userID[q] \notin {0, userID[r]}
        /\ requestId[q] # requestId[r]

\* C4: inside withLogContext(f1, () => withLogContext(f2, work)), the
\* record work writes through getLogger() has exactly the keys of f1 and f2,
\* and under each the value of f2 if f2 has the key, else the value of f1.
C4_Composition ==
    \A i \in 1..Len(sync.out) :
        sync.out[i].rec.msg = "work" =>
            LET rec == sync.out[i].rec
            IN /\ {rec.fields[j][1] : j \in 1..Len(rec.fields)}
                    = KeysOf(sync.f1) \cup KeysOf(sync.f2)
               /\ \A k \in KeysOf(sync.f1) \cup KeysOf(sync.f2) :
                    FieldOf(rec, k) = IF k \in KeysOf(sync.f2)
                                      THEN ValueOf(sync.f2, k)
                                      ELSE ValueOf(sync.f1, k)

\* work has logged, with a key that f1 and f2 give different values and a
\* key only f1 has.
C4_Witness ==
    /\ \E i \in 1..Len(sync.out) : sync.out[i].rec.msg = "work"
    /\ \E k \in KeysOf(sync.f1) \cap KeysOf(sync.f2) :
           ValueOf(sync.f1, k) # ValueOf(sync.f2, k)
    /\ KeysOf(sync.f1) \ KeysOf(sync.f2) # {}

\* C5: getLogger() returns the base logger when no store is in effect (its
\* record then has no bound field), and the logger of the store in effect
\* otherwise.
C5_Fallback ==
    \A i \in 1..Len(sync.out) :
        LET e == sync.out[i]
        IN IF e.cur = NoStore
           THEN e.lg = logger /\ e.rec.fields = <<>>
           ELSE /\ MapHas(heap[e.cur], "logger")
                /\ e.lg = MapGet(heap[e.cur], "logger")

\* getLogger() has been called before any binding, inside two nested
\* bindings that bind something, and after both have returned.
C5_Witness ==
    /\ sync.pc = "end"
    /\ sync.f1 # <<>>
    /\ sync.f2 # <<>>
    /\ Len(sync.out) = 5
    /\ sync.out[1].cur = NoStore
    /\ sync.out[3].cur # NoStore
    /\ sync.out[5].cur = NoStore

\* What the code's scheduling guarantees: an await that is pending settles,
\* and an event that is due is emitted.  Nothing obliges a client to send a
\* request or to close its connection.
Fairness ==
    \A r \in Requests :
        /\ WF_vars(\E t \in Settlings : FetchSettles(r, t[1], t[2]))
        /\ WF_vars(\E t \in JsonSettlings : JsonSettles(r, t[1], t[2]))
        /\ WF_vars(EmitFinish(r))
        /\ WF_vars(EmitClose(r))

FairSpec == Spec /\ Fairness

\* C6: every request that has arrived eventually has exactly one completion
\* record, whether its handler succeeds or fails and however its response
\* terminates.
C6_EventuallyCompleted ==
    \A r \in Requests : Arrived(r) ~> (Completions(r) = 1)

\* C7: no request ever has more than one completion record, its connection
\* closing early or not.
C7_AtMostOneCompletion == \A r \in Requests : Completions(r) <= 1

\* One request has finished and then closed, with its completion record
\* written; the connection of another closed before its response ended.
C7_Witness ==
    \E r \in Requests, q \in Requests :
        /\ res[r] = "closed" /\ Completions(r) = 1
        /\ res[q] = "closed" /\ Arrived(q) /\ Completions(q) = 0

\* C8: the level of a completion record is decided by its status code
\* alone: error from 500 up, warn from 400 to 499, info below 400.
C8_Severity ==
    \A r \in Requests : \A i \in 1..Len(log[r]) :
        IsCompletion(log[r][i]) =>
            LET code == FieldOf(log[r][i], "status_code")
            IN /\ code = statusCode[r]
               /\ (code >= 500 => log[r][i].level = "error")
               /\ (code >= 400 /\ code < 500 => log[r][i].level = "warn")
               /\ (code < 400 => log[r][i].level = "info")

\* A response that ended with status 400 has its completion record.
C8_Witness ==
    \E r \in Requests :
        /\ statusCode[r] = 400
        /\ Completions(r) = 1
        /\ log[r][Len(log[r])].level = "warn"

\* C9: the entry record's request.id is the x-request-id header when the
\* request has one that is not empty; otherwise it is a generated
\* identifier, not empty, and different from the one generated for any
\* other request.
C9_EntryRequestId ==
    \A r \in Requests :
        Arrived(r) =>
            LET entry == log[r][1]
                h == xRequestId[r]
            IN /\ HasField(entry, "request.id")
               /\ IF h # <<>> /\ h[1] # ""
                  THEN FieldOf(entry, "request.id") = h[1]
                  ELSE /\ FieldOf(entry, "request.id") # ""
                       /\ \A q \in Requests \ {r} :
                              (Arrived(q) /\ xRequestId[q] \in {<<>>, <<"">>}) =>
                                  FieldOf(log[q][1], "request.id")
                                      # FieldOf(entry, "request.id")

\* A request without the header and a request with an empty header have
\* both arrived.
C9_Witness ==
    \E r \in Requests, q \in Requests :
        /\ Arrived(r) /\ xRequestId[r] = <<>>
        /\ Arrived(q) /\ xRequestId[q] = <<"">>

\* C10: every record written during a request's chain (entry, handler,
\* completion) has a request.id, and it is the identifier the middleware
\* chose on arrival, wherever the record has the key.
C10_SameRequestId ==
    \A r \in Requests : \A i \in 1..Len(log[r]) :
        /\ HasField(log[r][i], "request.id")
        /\ FieldAll(log[r][i], "request.id") = {requestId[r]}
        /\ requestId[r] = FieldOf(log[r][1], "request.id")

\* A request has its entry record, both handler records and its completion
\* record.
C10_Witness ==
    \E r \in Requests :
        /\ Len(log[r]) = 4
        /\ log[r][2].msg = "fetching user data"
        /\ log[r][3].msg = ProfileMsg(userID[r])
        /\ IsCompletion(log[r][4])

\* -------------------------------------------------------------- failures
\* C11: when the handler of one request has failed, the service keeps
\* serving: a request that has not arrived yet can still arrive, a
\* suspended chain of another request can still resume, and an ended
\* response of another request can still finish and get its completion
\* record.
C11_KeepsServing ==
    \A r \in Requests, q \in Requests :
        (q # r /\ pc[r] = "failed") =>
            /\ (pc[q] = "idle" /\ (\A p \in 1..(q - 1) : pc[p] # "idle"))
                   => ENABLED ArriveNoRoute(q, <<>>)
            /\ pc[q] = "awaitFetch" => ENABLED FetchSettles(q, "ok", "warn")
            /\ pc[q] = "awaitJson" => ENABLED JsonSettles(q, "ok", "warn")
            /\ res[q] = "ended" => ENABLED EmitFinish(q)

\* C12: whichever way work ends, each withLogContext call it ends through
\* hands its caller that same outcome (the thrown value thrown, the rejected
\* promise returned), and the only records written are those of the
\* caller's own getLogger().info calls: withLogContext writes none.
C12_Propagates ==
    /\ \A i \in 1..Len(sync.got) : sync.got[i] = sync.work
    /\ \A i \in 1..Len(sync.out), j \in 1..Len(sync.out) :
           /\ sync.out[i].rec.msg \in {"outside", "outer", "work", "between", "after"}
           /\ sync.out[i].rec.msg = sync.out[j].rec.msg => i = j
    /\ sync.pc = "end" => Len(sync.out) = IF sync.work.thrown THEN 4 ELSE 5

\* work has failed, by a throw or by a rejected promise, and the inner and
\* the outer withLogContext have both ended.
C12_Witness ==
    /\ sync.pc = "end"
    /\ sync.work.value # "user"
    /\ Len(sync.got) = 2

\* ------------------------------------------------------------- lifecycle
IsEntry(rec) == HasField(rec, "http.request.method")

\* C13: the records of one request come in lifecycle order.  The entry
\* record is the first and the only one; "fetching user data" comes before
\* "profile info ... retrieved successfully"; a completion record comes
\* after the entry record and is written only by the step in which the
\* ended response finishes.
C13_LifecycleOrder ==
    /\ [](\A r \in Requests :
            Arrived(r) =>
                /\ Len(log[r]) >= 1
                /\ IsEntry(log[r][1])
                /\ \A i \in 2..Len(log[r]) : ~IsEntry(log[r][i])
                /\ \A i \in 1..Len(log[r]), j \in 1..Len(log[r]) :
                       (/\ log[r][i].msg = "fetching user data"
                        /\ log[r][j].msg = ProfileMsg(userID[r])) => i < j
                /\ \A i \in 1..Len(log[r]) :
                       IsCompletion(log[r][i]) =>
                           i > 1 /\ res[r] \in {"finished", "closed"})
    /\ [][\A r \in Requests :
            Completions(r)' > Completions(r) =>
                res[r] = "ended" /\ res'[r] = "finished"]_vars

\* A /fetch-user request has gone through its whole lifecycle: entry, the
\* two records of the handler, completion.
C13_Witness ==
    \E r \in Requests :
        /\ Len(log[r]) = 4
        /\ IsEntry(log[r][1])
        /\ log[r][2].msg = "fetching user data"
        /\ log[r][3].msg = ProfileMsg(userID[r])
        /\ IsCompletion(log[r][4])

\* ----------------------------------------------------- ambient restoration
\* C14: once withLogContext has ended, whichever way work ended, its caller
\* is back in the store that was in effect before the call: "after" is
\* written in the store of "outside" (none) and "between" in the store of
\* "outer".  The store a call installs is in effect for its callback only:
\* the store of "work" is the store of no other record, and the store of
\* "outer" is not the store of "outside" or "after".
C14_AmbientRestored ==
    /\ \A i \in 1..Len(sync.out), j \in 1..Len(sync.out) :
           LET a == sync.out[i]
               b == sync.out[j]
           IN /\ (a.rec.msg = "outside" /\ b.rec.msg = "after") => b.cur = a.cur
              /\ (a.rec.msg = "outer" /\ b.rec.msg = "between") => b.cur = a.cur
              /\ (a.rec.msg = "work" /\ i # j) => b.cur # a.cur
              /\ (a.rec.msg = "outer" /\ b.rec.msg \in {"outside", "after"})
                     => b.cur # a.cur
    /\ sync.pc \in {"after", "end"} => sync.cur = NoStore /\ sync.saved = <<>>

\* Both calls have ended, work having returned a rejected promise, and the
\* caller has logged after each.
C14_Witness ==
    /\ sync.pc = "end"
    /\ ~sync.work.thrown
    /\ sync.work.value # "user"
    /\ \E i \in 1..Len(sync.out) : sync.out[i].rec.msg = "between"
    /\ \E i \in 1..Len(sync.out) : sync.out[i].rec.msg = "after"

\* ------------------------------------------------------- frame immutability
\* C15: a store is never written once it has been passed to
\* asyncLocalStorage.run(), by the middleware or by withLogContext, and a
\* completion record, written through the request logger, has no user.id
\* field.
C15_NeverMutatedOnceInstalled ==
    \A r \in Requests :
        /\ \A i \in 1..Len(ops[r]), j \in 1..Len(ops[r]) :
               (/\ i < j
                /\ ops[r][i].op = "run"
                /\ ops[r][j].store = ops[r][i].store) => ops[r][j].op # "set"
        /\ \A i \in 1..Len(log[r]) :
               IsCompletion(log[r][i]) => ~HasField(log[r][i], "user.id")

\* ------------------------------------------------------- observation only
NextOps(r) == {i \in 1..Len(ops[r]) : ops[r][i].op = "next"}

\* C16: for every request that has arrived, with or without an x-request-id
\* header, the middleware has called next() exactly once, in the store its
\* binding of request.id installed, and never again later; the /fetch-user
\* handler has therefore started once.  The middleware leaves the response
\* alone: while the handler is suspended the status code is still the
\* default and the response has not been ended.
C16_ObservationOnly ==
    \A r \in Requests :
        Arrived(r) =>
            /\ Cardinality(NextOps(r)) = 1
            /\ \A i \in NextOps(r) : ops[r][i].store = installed[r][2]
            /\ userID[r] \in UserIds =>
                   Cardinality({i \in 1..Len(log[r]) :
                                  log[r][i].msg = "fetching user data"}) = 1
            /\ Suspended(r) =>
                   statusCode[r] = 200 /\ res[r] \in {"open", "closed"}

\* Two requests have arrived, one without the header and one with it; the
\* first has resumed and ended its response, the second is still suspended.
C16_Witness ==
    \E r1 \in Requests, r2 \in Requests :
        /\ xRequestId[r1] = <<>>
        /\ Truthy(xRequestId[r2])
        /\ userID[r1] \in UserIds
        /\ pc[r1] = "done"
        /\ Suspended(r2)

\* ---------------------------------------------------------------- duration
\* C17: the middleware captures the clock when the request arrives and never
\* changes that value; the completion record written when the response
\* finishes has duration_ms equal to the clock at that instant minus the
\* value captured for that same request; and the duration_ms of every
\* completion record is a natural number.
C17_Duration ==
    /\ [](\A r \in Requests : \A i \in 1..Len(log[r]) :
            IsCompletion(log[r][i]) => FieldOf(log[r][i], "duration_ms") \in Nat)
    /\ [][\A r \in Requests :
            /\ (pc[r] = "idle" /\ pc'[r] # "idle") => start'[r] = now
            /\ Arrived(r) => start'[r] = start[r]
            /\ Completions(r)' > Completions(r) =>
                   /\ res'[r] = "finished"
                   /\ FieldOf(log'[r][Len(log'[r])], "duration_ms") = now - start[r]
                   /\ now >= start[r]]_vars

\* A request arrived at one clock value and finished at a later one, and
\* another request arrived at yet another clock value.
C17_Witness ==
    \E r \in Requests, q \in Requests :
        /\ Arrived(r) /\ Arrived(q)
        /\ start[q] # start[r]
        /\ \E i \in 1..Len(log[r]) :
               IsCompletion(log[r][i]) /\ FieldOf(log[r][i], "duration_ms") > 0

\* --------------------------------------------------------------------- /sse
\* C18: once the close of a /sse connection has been handled its timer is
\* cleared and its response is ended, so the timer cannot fire and nothing
\* has been written to the response after its end; the timer of every
\* connection that is still open is running and can fire.
C18_TimerCleared ==
    \A c \in Clients :
        /\ sse[c].state = "closed" =>
               /\ ~sse[c].timer
               /\ sse[c].ended
               /\ ~sse[c].late
               /\ ~ENABLED IntervalFires(c)
        /\ sse[c].state = "open" =>
               /\ sse[c].timer
               /\ ~sse[c].ended
               /\ sse[c].written < MaxWrites => ENABLED IntervalFires(c)

\* One connection has closed after receiving an event, and another, still
\* open, has received more events than the closed one ever did.
C18_Witness ==
    \E c \in Clients, d \in Clients :
        /\ sse[c].state = "closed"
        /\ sse[c].written >= 1
        /\ sse[d].state = "open"
        /\ sse[d].written > sse[c].written

====
